---- MODULE Spec2Model ----
(***************************************************************************)
(* A model of stage2.py: the stage-2 tarball build.                        *)
(*                                                                         *)
(* The module holds one state machine per part of the program:             *)
(*   SpecBuild    make_stage2_tarball, the pipeline and its error handling *)
(*   SpecTar      tar_stage_dir and _write_exclude_list                    *)
(*   SpecAlt      fix_alternatives_symlinks                                *)
(*   SpecPrune    remove_empty_dirs_from_tarball                           *)
(*   SpecVersion  fix_osg_version                                          *)
(*   SpecManifest write_package_list_file                                  *)
(* Each specification starts the variables of the other parts at a fixed   *)
(* idle value and never changes them.                                      *)
(*                                                                         *)
(* Text is a sequence of symbols.  A symbol is one character ("." "/"      *)
(* "\n" "*" "?" "-" or a digit) or a word, which stands for a fixed run    *)
(* of characters containing none of the single-character symbols.          *)
(***************************************************************************)
EXTENDS Integers, Sequences, FiniteSets, TLC

VARIABLES
    \* make_stage2_tarball
    pc, result, raised, logged, stepsRun, failedTools, fatal,
    patch_dirs, attempted, manifestWritten, tarballProduced,
    \* tar_stage_dir
    stage_files, stage1_filelist, exclude_list_file, archive, tarState,
    \* fix_alternatives_symlinks
    fs, fs0, altState,
    \* remove_empty_dirs_from_tarball
    tar_dirs, tar_files, recreate_dirs, pruneState, findFailed,
    \* fix_osg_version
    osg_version, relnum, versionRuns, versionOrig, versionAfterFirst, versionState,
    \* write_package_list_file
    rpm_output, exclude_list, rpm_versions, manifestState

buildVars == <<pc, result, raised, logged, stepsRun, failedTools, fatal,
               patch_dirs, attempted, manifestWritten, tarballProduced>>
tarVars == <<stage_files, stage1_filelist, exclude_list_file, archive, tarState>>
altVars == <<fs, fs0, altState>>
pruneVars == <<tar_dirs, tar_files, recreate_dirs, pruneState, findFailed>>
versionVars == <<osg_version, relnum, versionRuns, versionOrig, versionAfterFirst,
                 versionState>>
manifestVars == <<rpm_output, exclude_list, rpm_versions, manifestState>>
vars == <<buildVars, tarVars, altVars, pruneVars, versionVars, manifestVars>>

IdleBuild ==
    /\ pc = "idle" /\ result = "idle" /\ raised = "idle" /\ logged = FALSE
    /\ stepsRun = <<>> /\ failedTools = {} /\ fatal = {} /\ patch_dirs = [isNone |-> TRUE, dirs |-> <<>>]
    /\ attempted = <<>> /\ manifestWritten = FALSE /\ tarballProduced = FALSE
IdleTar ==
    /\ stage_files = {} /\ stage1_filelist = <<>> /\ exclude_list_file = <<>>
    /\ archive = {} /\ tarState = "idle"
IdleAlt == fs = {} /\ fs0 = {} /\ altState = "idle"
IdlePrune ==
    /\ tar_dirs = {} /\ tar_files = {} /\ recreate_dirs = <<>>
    /\ pruneState = "idle" /\ findFailed = FALSE
IdleVersion ==
    /\ osg_version = <<>> /\ relnum = 0 /\ versionRuns = 0
    /\ versionOrig = <<>> /\ versionAfterFirst = <<>> /\ versionState = "idle"
IdleManifest ==
    /\ rpm_output = <<>> /\ exclude_list = <<>> /\ rpm_versions = <<>>
    /\ manifestState = "idle"

(***************************************************************************)
(* Generic helpers on sequences.                                           *)
(***************************************************************************)
Range(s) == {s[i] : i \in 1..Len(s)}

SeqsUpTo(S, n) == UNION {[1..k -> S] : k \in 0..n}

StartsWith(s, p) == Len(p) <= Len(s) /\ SubSeq(s, 1, Len(p)) = p

RECURSIVE Concat(_)
Concat(ss) == IF ss = <<>> THEN <<>> ELSE Head(ss) \o Concat(Tail(ss))

(***************************************************************************)
(* make_stage2_tarball: the pipeline.                                      *)
(***************************************************************************)
MaxPatchDirs == 2
MaxPatchesPerDir == 2
MaxPatchName == 2

\* What glob.glob(<dir>/*.patch) can return for one directory: the basenames
\* of its patch files, in the order the directory listing gives them.
PatchDirListings ==
    {l \in SeqsUpTo(1..MaxPatchName, MaxPatchesPerDir) :
        \A i, j \in 1..Len(l) : i # j => l[i] # l[j]}

\* make_stage2_tarball's patch_dirs argument: None, or a list of directories.
PatchDirsArgs ==
    {[isNone |-> TRUE, dirs |-> <<>>]}
    \cup {[isNone |-> FALSE, dirs |-> d] : d \in SeqsUpTo(PatchDirListings, MaxPatchDirs)}

\* patch_files += glob.glob(...) over the directories, in order; a patch file
\* is <<directory index, basename>>.
RECURSIVE GlobPatchFiles(_, _)
GlobPatchFiles(dirs, d) ==
    IF d > Len(dirs) THEN <<>>
    ELSE [i \in 1..Len(dirs[d]) |-> <<d, dirs[d][i]>>] \o GlobPatchFiles(dirs, d + 1)

\* _cmp_basename: compares the basenames only.
_cmp_basename(left, right) ==
    IF left[2] < right[2] THEN -1 ELSE IF left[2] > right[2] THEN 1 ELSE 0

\* list.sort(cmp=_cmp_basename): a stable sort.
RECURSIVE InsertSorted(_, _)
InsertSorted(sorted, x) ==
    IF sorted = <<>> THEN <<x>>
    ELSE IF _cmp_basename(x, Head(sorted)) < 0 THEN <<x>> \o sorted
    ELSE <<Head(sorted)>> \o InsertSorted(Tail(sorted), x)

RECURSIVE SortPatchFiles(_)
SortPatchFiles(files) ==
    IF files = <<>> THEN <<>>
    ELSE InsertSorted(SortPatchFiles(SubSeq(files, 1, Len(files) - 1)), files[Len(files)])

\* A mutant of the patch loop: a failed patch is noted but the loop goes on.
ApplyPatchesKeepGoing(files, rc) ==
    [i \in 1..Len(files) |-> [file |-> files[i], err |-> rc[i]]]

\* The loop of patch_installed_packages: the patches are applied in order and
\* the first non-zero exit of patch raises, so no later patch is attempted.
\* rc[i] is the exit status patch gives for files[i].
ApplyPatches(files, rc) ==
    LET failing == {i \in 1..Len(files) : rc[i] # 0}
        last == IF failing = {} THEN Len(files)
                ELSE CHOOSE i \in failing : \A j \in failing : i <= j
    IN  [i \in 1..last |-> [file |-> files[i], err |-> rc[i]]]

\* A mutant of the except clause: it catches every exception type.
CaughtAnyException(exc) == TRUE

\* "except Error as err": only the domain Error is caught.
Caught(exc) == exc = "Error"

\* An exception raised inside the try block: caught and logged, after which
\* the function ends with no return statement (None); or not caught, and it
\* leaves the function.
Abort(exc) ==
    /\ pc' = "done"
    /\ raised' = exc
    /\ logged' = Caught(exc)
    /\ result' = IF Caught(exc) THEN "None" ELSE "Propagated"

Proceed(next) ==
    /\ pc' = next
    /\ UNCHANGED <<raised, logged, result>>

Ran(step) == stepsRun' = Append(stepsRun, step)

ExitCodes == {0, 1}

InitBuild ==
    /\ pc = "install_packages"
    /\ result = "running"
    /\ raised = "none"
    /\ logged = FALSE
    /\ stepsRun = <<>>
    /\ failedTools = {}
    /\ fatal = {}
    /\ patch_dirs \in PatchDirsArgs
    /\ attempted = <<>>
    /\ manifestWritten = FALSE
    /\ tarballProduced = FALSE
    /\ IdleTar /\ IdleAlt /\ IdlePrune /\ IdleVersion /\ IdleManifest

OtherThanBuild == <<tarVars, altVars, pruneVars, versionVars, manifestVars>>

\* install_packages: yum install, then every package must answer rpm -q.
InstallPackages ==
    /\ pc = "install_packages"
    /\ Ran("install_packages")
    /\ \E installed \in BOOLEAN :
        IF installed
        THEN /\ Proceed("patch_installed_packages")
             /\ UNCHANGED <<failedTools, fatal>>
        ELSE /\ Abort("Error")
             /\ failedTools' = failedTools \cup {"rpm -q"}
             /\ fatal' = fatal \cup {"verification failed"}
    /\ UNCHANGED <<patch_dirs, attempted, manifestWritten, tarballProduced>>
    /\ UNCHANGED OtherThanBuild

\* "if patch_dirs is not None: patch_installed_packages(...)".
PatchInstalledPackages ==
    /\ pc = "patch_installed_packages"
    /\ IF patch_dirs.isNone
       THEN /\ Proceed("fix_gsissh_config_dir")
            /\ UNCHANGED <<stepsRun, attempted, failedTools, fatal>>
       ELSE LET files == SortPatchFiles(GlobPatchFiles(patch_dirs.dirs, 1))
            IN  \E rc \in [1..Len(files) -> ExitCodes] :
                  /\ Ran("patch_installed_packages")
                  /\ attempted' = ApplyPatches(files, rc)
                  /\ IF \E i \in 1..Len(files) : rc[i] # 0
                     THEN /\ Abort("Error")
                          /\ failedTools' = failedTools \cup {"patch"}
                          /\ fatal' = fatal \cup {"patch failed"}
                     ELSE /\ Proceed("fix_gsissh_config_dir")
                          /\ UNCHANGED <<failedTools, fatal>>
    /\ UNCHANGED <<patch_dirs, manifestWritten, tarballProduced>>
    /\ UNCHANGED OtherThanBuild

\* "if package_installed('gsi-openssh'): fix_gsissh_config_dir(...)".
FixGsisshConfigDir ==
    /\ pc = "fix_gsissh_config_dir"
    /\ \E installed \in BOOLEAN, symlinkFails \in BOOLEAN :
        IF ~installed
        THEN /\ ~symlinkFails
             /\ Proceed("fix_osg_version")
             /\ UNCHANGED <<stepsRun, fatal>>
        ELSE /\ Ran("fix_gsissh_config_dir")
             /\ IF symlinkFails
                THEN Abort("Error") /\ fatal' = fatal \cup {"filesystem error"}
                ELSE Proceed("fix_osg_version") /\ UNCHANGED fatal
    /\ UNCHANGED <<failedTools, patch_dirs, attempted, manifestWritten, tarballProduced>>
    /\ UNCHANGED OtherThanBuild

\* "if package_installed('osg-version'): fix_osg_version(...)": open() of a
\* missing file raises IOError, an empty or versionless file raises Error.
FixOsgVersionStep ==
    /\ pc = "fix_osg_version"
    /\ \E installed \in BOOLEAN, file \in {"good", "missing", "empty", "no version"} :
        IF ~installed
        THEN /\ file = "good"
             /\ Proceed("fix_alternatives_symlinks")
             /\ UNCHANGED <<stepsRun, fatal>>
        ELSE /\ Ran("fix_osg_version")
             /\ CASE file = "good" -> Proceed("fix_alternatives_symlinks") /\ UNCHANGED fatal
                  [] file = "missing" -> Abort("IOError") /\ fatal' = fatal \cup {"filesystem error"}
                  [] OTHER -> Abort("Error") /\ fatal' = fatal \cup {"verification failed"}
    /\ UNCHANGED <<failedTools, patch_dirs, attempted, manifestWritten, tarballProduced>>
    /\ UNCHANGED OtherThanBuild

\* fix_alternatives_symlinks: os.unlink and os.symlink may raise OSError.
FixAlternativesSymlinksStep ==
    /\ pc = "fix_alternatives_symlinks"
    /\ Ran("fix_alternatives_symlinks")
    /\ \E oserror \in BOOLEAN :
        IF oserror
        THEN Abort("OSError") /\ fatal' = fatal \cup {"filesystem error"}
        ELSE Proceed("copy_osg_post_scripts") /\ UNCHANGED fatal
    /\ UNCHANGED <<failedTools, patch_dirs, attempted, manifestWritten, tarballProduced>>
    /\ UNCHANGED OtherThanBuild

\* copy_osg_post_scripts: a missing directory or a failed copy raises Error.
CopyOsgPostScripts ==
    /\ pc = "copy_osg_post_scripts"
    /\ Ran("copy_osg_post_scripts")
    /\ \E copied \in BOOLEAN :
        IF copied
        THEN Proceed("get_stage1_rpmlist") /\ UNCHANGED fatal
        ELSE Abort("Error") /\ fatal' = fatal \cup {"filesystem error"}
    /\ UNCHANGED <<failedTools, patch_dirs, attempted, manifestWritten, tarballProduced>>
    /\ UNCHANGED OtherThanBuild

\* get_stage1_rpmlist: a bare open(); a missing stage1_rpmlist raises IOError.
GetStage1Rpmlist ==
    /\ pc = "get_stage1_rpmlist"
    /\ Ran("get_stage1_rpmlist")
    /\ \E present \in BOOLEAN :
        IF present
        THEN Proceed("write_package_list_file") /\ UNCHANGED fatal
        ELSE Abort("IOError") /\ fatal' = fatal \cup {"stage1_rpmlist missing"}
    /\ UNCHANGED <<failedTools, patch_dirs, attempted, manifestWritten, tarballProduced>>
    /\ UNCHANGED OtherThanBuild

\* write_package_list_file: a non-zero exit of rpm -qa raises
\* subprocess.CalledProcessError; otherwise osg/rpm-versions.txt is written.
WritePackageListFileStep ==
    /\ pc = "write_package_list_file"
    /\ Ran("write_package_list_file")
    /\ \E retcode \in ExitCodes :
        IF retcode # 0
        THEN /\ Abort("CalledProcessError")
             /\ failedTools' = failedTools \cup {"rpm -qa"}
             /\ fatal' = fatal \cup {"rpm -qa failed"}
             /\ UNCHANGED manifestWritten
        ELSE /\ Proceed("fix_permissions")
             /\ manifestWritten' = TRUE
             /\ UNCHANGED <<failedTools, fatal>>
    /\ UNCHANGED <<patch_dirs, attempted, tarballProduced>>
    /\ UNCHANGED OtherThanBuild

\* fix_permissions returns the exit status of chmod; the caller drops it.
FixPermissions ==
    /\ pc = "fix_permissions"
    /\ Ran("fix_permissions")
    /\ \E err \in ExitCodes :
        failedTools' = IF err # 0 THEN failedTools \cup {"chmod"} ELSE failedTools
    /\ Proceed("tar_stage_dir")
    /\ UNCHANGED <<fatal, patch_dirs, attempted, manifestWritten, tarballProduced>>
    /\ UNCHANGED OtherThanBuild

\* tar_stage_dir: a non-zero exit of tar raises Error.
TarStageDirStep ==
    /\ pc = "tar_stage_dir"
    /\ Ran("tar_stage_dir")
    /\ \E err \in ExitCodes :
        IF err # 0
        THEN /\ Abort("Error")
             /\ failedTools' = failedTools \cup {"tar"}
             /\ fatal' = fatal \cup {"tar failed"}
             /\ UNCHANGED tarballProduced
        ELSE /\ Proceed("remove_empty_dirs_from_tarball")
             /\ tarballProduced' = TRUE
             /\ UNCHANGED <<failedTools, fatal>>
    /\ UNCHANGED <<patch_dirs, attempted, manifestWritten>>
    /\ UNCHANGED OtherThanBuild

\* remove_empty_dirs_from_tarball, then "return True": tar runs under
\* check_call (CalledProcessError), find under call (exit status dropped).
RemoveEmptyDirsStep ==
    /\ pc = "remove_empty_dirs_from_tarball"
    /\ Ran("remove_empty_dirs_from_tarball")
    /\ \E extract \in ExitCodes, find \in ExitCodes, create \in ExitCodes :
        /\ extract # 0 => find = 0 /\ create = 0
        /\ IF extract # 0 \/ create # 0
           THEN /\ Abort("CalledProcessError")
                /\ fatal' = fatal \cup {"tar failed"}
           ELSE /\ pc' = "done"
                /\ result' = "True"
                /\ UNCHANGED <<raised, logged, fatal>>
        /\ failedTools' = failedTools
              \cup (IF extract # 0 \/ create # 0 THEN {"tar"} ELSE {})
              \cup (IF find # 0 THEN {"find"} ELSE {})
    /\ UNCHANGED <<patch_dirs, attempted, manifestWritten, tarballProduced>>
    /\ UNCHANGED OtherThanBuild

NextBuild ==
    \/ InstallPackages
    \/ PatchInstalledPackages
    \/ FixGsisshConfigDir
    \/ FixOsgVersionStep
    \/ FixAlternativesSymlinksStep
    \/ CopyOsgPostScripts
    \/ GetStage1Rpmlist
    \/ WritePackageListFileStep
    \/ FixPermissions
    \/ TarStageDirStep
    \/ RemoveEmptyDirsStep

SpecBuild == InitBuild /\ [][NextBuild]_vars

\* The steps make_stage2_tarball runs on every build, and those after patching.
UnconditionalSteps ==
    {"install_packages", "fix_alternatives_symlinks", "copy_osg_post_scripts",
     "get_stage1_rpmlist", "write_package_list_file", "fix_permissions",
     "tar_stage_dir", "remove_empty_dirs_from_tarball"}

StepsAfterPatching ==
    {"fix_gsissh_config_dir", "fix_osg_version", "fix_alternatives_symlinks",
     "copy_osg_post_scripts", "get_stage1_rpmlist", "write_package_list_file",
     "fix_permissions", "tar_stage_dir", "remove_empty_dirs_from_tarball"}

\* C2: in make_stage2_tarball a raised Error is caught and logged and the
\* function ends without reporting success; True is returned only when every
\* step completed; an exception of another type is not caught (not logged)
\* and propagates; once anything was raised no further step runs.
C2_ErrorCaughtAtTopLevel ==
    /\ [](/\ result = "True" =>
                raised = "none" /\ UnconditionalSteps \subseteq Range(stepsRun)
          /\ raised = "Error" => logged /\ result = "None"
          /\ raised \notin {"none", "Error"} => ~logged /\ result = "Propagated")
    /\ [][raised # "none" => stepsRun' = stepsRun]_vars

\* C2 witness: an Error raised in the middle of the pipeline was caught.
C2_Witness ==
    /\ raised = "Error" /\ logged /\ result = "None"
    /\ Len(stepsRun) >= 3
    /\ "tar_stage_dir" \notin Range(stepsRun)

\* C3: every non-zero exit of an external tool ends the build: the build
\* never returns True after one, and a failed chmod prevents archiving.
C3_ToolFailureEndsBuild ==
    /\ failedTools # {} => result # "True"
    /\ "chmod" \in failedTools => "tar_stage_dir" \notin Range(stepsRun)

\* C4: every fatal condition inside a step is raised as Error, so the build
\* ends reporting failure and no other exception type leaves the function.
C4_FatalRaisedAsError ==
    fatal # {} /\ pc = "done" => raised = "Error" /\ result = "None"

\* C5: when a patch fails to apply, the failing patch is the last one
\* attempted, no later step has run, the manifest is not written and no
\* tarball is produced.
C5_PatchFailureAborts ==
    (\E i \in 1..Len(attempted) : attempted[i].err # 0) =>
        /\ \A i \in 1..Len(attempted) : attempted[i].err # 0 <=> i = Len(attempted)
        /\ Range(stepsRun) \cap StepsAfterPatching = {}
        /\ ~manifestWritten
        /\ ~tarballProduced

\* C5 witness: the second patch failed and a later patch was left unapplied.
C5_Witness ==
    /\ pc = "done"
    /\ Len(attempted) = 2
    /\ attempted[2].err # 0
    /\ Len(SortPatchFiles(GlobPatchFiles(patch_dirs.dirs, 1))) > 2

(***************************************************************************)
(* tar_stage_dir and _write_exclude_list.                                  *)
(***************************************************************************)
MaxFilelistEntries == 2

\* os.path.basename(stage_dir_abs)
stage_dir_base == <<"stage2">>

\* The files a staging directory may hold (paths relative to it).
StageFileUniverse ==
    { <<"etc", "/", "foo", ".", "conf">>,
      <<".", "bashrc">>,
      <<"bashrc">>,
      <<"var", "/", "lib", "/", "rpm", "/", "Packages">>,
      <<"stage1_rpmlist">>,
      <<"usr", "/", "bin", "/", "tool">> }

\* The lines a stage1_filelist may hold: paths relative to the staging
\* directory, as find prints them, with or without a leading "./".
FilelistEntries ==
    { <<"etc", "/", "foo", ".", "conf">>,
      <<".", "/", "etc", "/", "foo", ".", "conf">>,
      <<".", "bashrc">>,
      <<"usr", "/", "bin", "/", "tool">> }

\* The path an entry of the baseline file list names.
EntryPath(entry) ==
    IF StartsWith(entry, <<".", "/">>) THEN SubSeq(entry, 3, Len(entry)) ELSE entry

\* The contents a stage1_filelist may have: distinct paths, one per line, the
\* last line with or without its newline.
FilelistContents ==
    {Concat([i \in 1..Len(es) |->
                IF i = Len(es) /\ ~nl THEN es[i] ELSE es[i] \o <<"\n">>]) :
        es \in {l \in SeqsUpTo(FilelistEntries, MaxFilelistEntries) :
                    \A i, j \in 1..Len(l) : i # j => EntryPath(l[i]) # EntryPath(l[j])},
        nl \in BOOLEAN}

\* The deny list of tar_stage_dir.
excludes ==
    <<
      <<"var", "/", "log", "/", "yum", ".", "log">>,                   \* var/log/yum.log
      <<"tmp", "/", "*">>,                                             \* tmp/*
      <<"var", "/", "cache", "/", "yum", "/", "*">>,                   \* var/cache/yum/*
      <<"var", "/", "lib", "/", "rpm", "/", "*">>,                     \* var/lib/rpm/*
      <<"var", "/", "lib", "/", "yum", "/", "*">>,                     \* var/lib/yum/*
      <<"var", "/", "tmp", "/", "*">>,                                 \* var/tmp/*
      <<"dev", "/", "*">>,                                             \* dev/*
      <<"proc", "/", "*">>,                                            \* proc/*
      <<"etc", "/", "rc", ".", "d", "/", "rc", "?", ".", "d">>,        \* etc/rc.d/rc?.d
      <<"etc", "/", "alternatives">>,                                  \* etc/alternatives
      <<"var", "/", "lib", "/", "alternatives">>,                      \* var/lib/alternatives
      <<"usr", "/", "bin", "/", "[[]">>,                               \* usr/bin/[[]
      <<"usr", "/", "share", "/", "man", "/", "man1", "/", "[[]", ".", "1", ".", "gz">>, \* usr/share/man/man1/[[].1.gz
      <<"bin", "/", "dbus", "*">>,                                     \* bin/dbus*
      <<"lib", "/", "libcap", "*">>,                                   \* lib/libcap*
      <<"lib", "/", "dbus", "*">>,                                     \* lib/dbus*
      <<"lib", "/", "security", "/", "pam", "*", ".", "so">>,          \* lib/security/pam*.so
      <<"lib64", "/", "libcap", "*">>,                                 \* lib64/libcap*
      <<"lib64", "/", "dbus", "*">>,                                   \* lib64/dbus*
      <<"lib64", "/", "security", "/", "pam", "*", ".", "so">>,        \* lib64/security/pam*.so
      <<"usr", "/", "bin", "/", "gnome", "*">>,                        \* usr/bin/gnome*
      <<"*", "~">>,                                                    \* *~
      <<"stage1_rpmlist">>                                             \* stage1_rpmlist
    >>

\* "for line in in_fh": the lines of a text, each with its newline kept.
RECURSIVE FileLines(_)
FileLines(text) ==
    IF text = <<>> THEN <<>>
    ELSE LET ends == {i \in 1..Len(text) : text[i] = "\n"}
             cut == IF ends = {} THEN Len(text)
                    ELSE CHOOSE i \in ends : \A j \in ends : i <= j
         IN  <<SubSeq(text, 1, cut)>> \o FileLines(SubSeq(text, cut + 1, Len(text)))

\* str.lstrip(chars): drops every leading character that is in chars.
RECURSIVE LStrip(_, _)
LStrip(text, chars) ==
    IF text # <<>> /\ Head(text) \in chars THEN LStrip(Tail(text), chars) ELSE text

\* os.path.join(a, b)
PathJoin(a, b) ==
    IF b # <<>> /\ Head(b) = "/" THEN b
    ELSE IF a = <<>> \/ a[Len(a)] = "/" THEN a \o b
    ELSE a \o <<"/">> \o b

\* _write_exclude_list: the text written to exclude_list_path.
_write_exclude_list(filelist_text, prepend_dir, extra_excludes) ==
    LET lines == FileLines(filelist_text)
    IN  Concat([i \in 1..Len(lines) |->
                    PathJoin(prepend_dir, LStrip(lines[i], {".", "/"}))])
        \o Concat([i \in 1..Len(extra_excludes) |->
                    PathJoin(prepend_dir, extra_excludes[i]) \o <<"\n">>])

\* tar reads --exclude-from one pattern per line.
ExcludePatterns(text) ==
    LET lines == FileLines(text)
    IN  {IF l[Len(l)] = "\n" THEN SubSeq(l, 1, Len(l) - 1) ELSE l : l \in Range(lines)}
        \ {<<>>}

\* fnmatch as tar uses it for exclusion: * matches any run of characters,
\* "/" included; ? one character; [[] the character "[".
SingleCharacters == {".", "/", "~", "[", "-"}

RECURSIVE FnMatch(_, _)
FnMatch(pat, name) ==
    IF pat = <<>> THEN name = <<>>
    ELSE IF Head(pat) = "*"
         THEN FnMatch(Tail(pat), name) \/ (name # <<>> /\ FnMatch(pat, Tail(name)))
    ELSE IF name = <<>> THEN FALSE
    ELSE IF Head(pat) = "?"
         THEN Head(name) \in SingleCharacters /\ FnMatch(Tail(pat), Tail(name))
    ELSE IF Head(pat) = "[[]"
         THEN Head(name) = "[" /\ FnMatch(Tail(pat), Tail(name))
    ELSE Head(pat) = Head(name) /\ FnMatch(Tail(pat), Tail(name))

\* tar excludes a member when a pattern matches its name from the start of
\* some component to the end of some component (patterns are not anchored,
\* and an excluded directory is not descended into).
TarExcluded(name, patterns) ==
    LET starts == {1} \cup {k + 1 : k \in {i \in 1..Len(name) : name[i] = "/"}}
        ends == {Len(name)} \cup {k - 1 : k \in {i \in 1..Len(name) : name[i] = "/"}}
    IN  \E pat \in patterns, i \in starts, j \in ends :
            i <= j /\ FnMatch(pat, SubSeq(name, i, j))

stage1_filelist_path == <<"stage1_filelist">>

InitTar ==
    /\ stage_files \in SUBSET StageFileUniverse
    /\ stage1_filelist \in
          {[isfile |-> FALSE, text |-> <<>>]}
          \cup {[isfile |-> TRUE, text |-> t] : t \in FilelistContents}
    /\ exclude_list_file = <<>>
    /\ archive = {}
    /\ tarState = "start"
    /\ IdleBuild /\ IdleAlt /\ IdlePrune /\ IdleVersion /\ IdleManifest

\* tar_stage_dir: the exclude list is written and handed to tar only when
\* stage1_filelist is a file; a non-zero exit of tar raises Error.
TarStageDir ==
    /\ tarState = "start"
    /\ exclude_list_file' =
          IF stage1_filelist.isfile
          THEN _write_exclude_list(stage1_filelist.text, stage_dir_base, excludes)
          ELSE exclude_list_file
    /\ \E err \in ExitCodes :
        IF err # 0
        THEN tarState' = "Error" /\ UNCHANGED archive
        ELSE /\ tarState' = "done"
             /\ LET patterns == IF stage1_filelist.isfile
                                THEN ExcludePatterns(exclude_list_file')
                                ELSE {}
                    members == stage_files \cup
                               (IF stage1_filelist.isfile THEN {stage1_filelist_path} ELSE {})
                IN  archive' = {f \in members :
                                  ~TarExcluded(PathJoin(stage_dir_base, f), patterns)}
    /\ UNCHANGED <<stage_files, stage1_filelist>>
    /\ UNCHANGED <<buildVars, altVars, pruneVars, versionVars, manifestVars>>

NextTar == TarStageDir

SpecTar == InitTar /\ [][NextTar]_vars

\* The paths the baseline file list names.
BaselinePaths == {EntryPath(IF l[Len(l)] = "\n" THEN SubSeq(l, 1, Len(l) - 1) ELSE l) :
                    l \in Range(FileLines(stage1_filelist.text))}

\* C1: with or without a stage1_filelist, the archive holds no path that
\* matches a deny-list pattern and no path listed in the baseline file list.
C1_ArchiveExcludesDenyListAndBaseline ==
    tarState = "done" =>
        \A f \in archive :
            /\ ~TarExcluded(f, Range(excludes))
            /\ f \notin BaselinePaths

\* C6: when a baseline file list exists, the exclude file holds exactly one
\* line <staging basename>/p for every entry p of the list, and one line
\* <staging basename>/d for every deny-list pattern d.
C6_ExcludeFileLines ==
    tarState = "done" /\ stage1_filelist.isfile =>
        LET lines == FileLines(exclude_list_file)
            Count(l) == Cardinality({i \in 1..Len(lines) : lines[i] = l \o <<"\n">>})
        IN  /\ \A p \in BaselinePaths : Count(stage_dir_base \o <<"/">> \o p) = 1
            /\ \A d \in Range(excludes) : Count(stage_dir_base \o <<"/">> \o d) = 1

(***************************************************************************)
(* fix_alternatives_symlinks.                                              *)
(*                                                                         *)
(* The filesystem fs maps the absolute path of every file and symlink, a   *)
(* sequence of names from the root, to its node; a directory is a proper   *)
(* prefix of such a path.  The staging directory is /build/stage2; paths   *)
(* outside it belong to the build host.                                    *)
(***************************************************************************)
MaxLinkHops == 6

stage_dir_abs == <<"/", "build", "/", "stage2">>

File == [kind |-> "file", target |-> <<>>]
Link(target) == [kind |-> "link", target |-> target]

\* The names of a path text, "/" and empty names dropped.
Components(text) == SelectSeq(text, LAMBDA c : c # "/")

IsAbs(text) == text # <<>> /\ Head(text) = "/"

\* The text of a list of names under the root.
RECURSIVE AbsText(_)
AbsText(names) ==
    IF names = <<>> THEN <<>> ELSE <<"/", Head(names)>> \o AbsText(Tail(names))

IsProperPrefix(p, q) == Len(p) < Len(q) /\ SubSeq(q, 1, Len(p)) = p

IsDirIn(f, p) == \E q \in DOMAIN f : IsProperPrefix(p, q)
IsLinkIn(f, p) == p \in DOMAIN f /\ f[p].kind = "link"
IsFileIn(f, p) == p \in DOMAIN f /\ f[p].kind = "file"

Parent(p) == IF p = <<>> THEN <<>> ELSE SubSeq(p, 1, Len(p) - 1)

\* Path resolution as the kernel does it: from directory cur through names,
\* following a symlink in the last position only when follow is set.
RECURSIVE Walk(_, _, _, _, _)
Walk(f, cur, names, follow, hops) ==
    IF names = <<>> THEN [ok |-> TRUE, path |-> cur]
    ELSE LET c == Head(names)
             rest == Tail(names)
             p == Append(cur, c)
         IN  IF c = "." THEN Walk(f, cur, rest, follow, hops)
             ELSE IF c = ".." THEN Walk(f, Parent(cur), rest, follow, hops)
             ELSE IF IsLinkIn(f, p) /\ (rest # <<>> \/ follow)
                  THEN IF hops = 0 THEN [ok |-> FALSE, path |-> p]
                       ELSE Walk(f, IF IsAbs(f[p].target) THEN <<>> ELSE cur,
                                 Components(f[p].target) \o rest, follow, hops - 1)
             ELSE IF IsLinkIn(f, p) THEN [ok |-> TRUE, path |-> p]
             ELSE IF IsFileIn(f, p) THEN [ok |-> rest = <<>>, path |-> p]
             ELSE IF IsDirIn(f, p) THEN Walk(f, p, rest, follow, hops)
             ELSE [ok |-> FALSE, path |-> p]

\* os.path.islink, os.readlink, os.path.exists, os.path.isdir on a path text.
islink(f, text) ==
    LET r == Walk(f, <<>>, Components(text), FALSE, MaxLinkHops)
    IN  r.ok /\ IsLinkIn(f, r.path)

readlink(f, text) == f[Walk(f, <<>>, Components(text), FALSE, MaxLinkHops).path].target

exists(f, text) == Walk(f, <<>>, Components(text), TRUE, MaxLinkHops).ok

isdir(f, text) ==
    LET r == Walk(f, <<>>, Components(text), TRUE, MaxLinkHops)
    IN  r.ok /\ IsDirIn(f, r.path)

\* os.path.normpath of an absolute path: "." dropped, ".." taken lexically.
RECURSIVE NormNames(_, _)
NormNames(done, names) ==
    IF names = <<>> THEN done
    ELSE IF Head(names) = "." THEN NormNames(done, Tail(names))
    ELSE IF Head(names) = ".." THEN NormNames(Parent(done), Tail(names))
    ELSE NormNames(Append(done, Head(names)), Tail(names))

\* os.path.relpath(path, start) of two absolute path texts.
relpath(path, start) ==
    LET pn == NormNames(<<>>, Components(path))
        sn == NormNames(<<>>, Components(start))
        same == {i \in 0..Len(pn) : i <= Len(sn) /\ SubSeq(pn, 1, i) = SubSeq(sn, 1, i)}
        i == CHOOSE k \in same : \A j \in same : j <= k
        names == [k \in 1..(Len(sn) - i) |-> ".."] \o SubSeq(pn, i + 1, Len(pn))
    IN  IF names = <<>> THEN <<".">>
        ELSE <<Head(names)>> \o AbsText(Tail(names))

\* os.path.dirname of an absolute path text without a trailing slash.
dirname(text) == AbsText(Parent(Components(text)))

\* Lines 245-250: the link text that replaces afilepath's.
NewLinkPath(f, afilepath) ==
    LET linkpath == readlink(f, afilepath)
        stage_linkpath == PathJoin(stage_dir_abs, LStrip(linkpath, {"/"}))
        alternatives_linkpath == readlink(f, stage_linkpath)
        stage_alternatives_linkpath ==
            PathJoin(stage_dir_abs, LStrip(alternatives_linkpath, {"/"}))
    IN  relpath(stage_alternatives_linkpath, dirname(afilepath))

\* The body of the loop for one file of the walk (lines 235-252).
FixOneFile(f, afilepath) ==
    IF ~islink(f, afilepath) THEN f
    ELSE LET linkpath == readlink(f, afilepath)
             stage_linkpath == PathJoin(stage_dir_abs, LStrip(linkpath, {"/"}))
         IN  IF ~StartsWith(linkpath, <<"/", "etc", "/", "alternatives">>) THEN f
             ELSE IF ~islink(f, stage_linkpath) THEN f
             ELSE IF ~exists(f, PathJoin(stage_dir_abs,
                                         LStrip(readlink(f, stage_linkpath), {"/"})))
                  THEN f
             ELSE [f EXCEPT ![Components(afilepath)] = Link(NewLinkPath(f, afilepath))]

RECURSIVE FixFiles(_, _)
FixFiles(f, files) ==
    IF files = <<>> THEN f ELSE FixFiles(FixOneFile(f, Head(files)), Tail(files))

\* os.walk(stage_dir_abs/usr): the entries below it that are not directories
\* (a symlink that leads to a directory is listed with the directories).
WalkFiles(f) ==
    {p \in DOMAIN f :
        /\ IsProperPrefix(Components(stage_dir_abs) \o <<"usr">>, p)
        /\ ~isdir(f, AbsText(p))}

Orderings(S) == {o \in [1..Cardinality(S) -> S] : Range(o) = S}

\* The staging trees and host files of the model.
StageNames == Components(stage_dir_abs)
usr_bin_x == StageNames \o <<"usr", "bin", "x">>
usr_bin_w == StageNames \o <<"usr", "bin", "w">>
usr_bin_x_real == StageNames \o <<"usr", "bin", "x-real">>
alternatives_x == StageNames \o <<"etc", "alternatives", "x">>
alternatives_y == StageNames \o <<"etc", "alternatives", "y">>
host_usr_bin_x_real == <<"usr", "bin", "x-real">>

NodeChoices(p) ==
    CASE p = usr_bin_x ->
            {Link(<<"/", "etc", "/", "alternatives", "/", "x">>), Link(<<"x-real">>), File}
      [] p = usr_bin_w ->
            {Link(<<"/", "etc", "/", "alternatives", "/", "y">>)}
      [] p \in {alternatives_x, alternatives_y} ->
            {Link(<<"/", "usr", "/", "bin", "/", "x-real">>),
             Link(<<"..", "/", "..", "/", "usr", "/", "bin", "/", "x-real">>)}
            \cup (IF p = alternatives_x
                  THEN {Link(<<"/", "etc", "/", "alternatives", "/", "y">>)} ELSE {})
      [] OTHER -> {File}

Filesystems ==
    UNION {[D \cup {usr_bin_x} -> UNION {NodeChoices(p) : p \in D \cup {usr_bin_x}}] :
              D \in SUBSET {usr_bin_w, usr_bin_x_real, alternatives_x, alternatives_y,
                            host_usr_bin_x_real}}

InitAlt ==
    /\ fs \in {f \in Filesystems : \A p \in DOMAIN f : f[p] \in NodeChoices(p)}
    /\ fs0 = fs
    /\ altState = "start"
    /\ IdleBuild /\ IdleTar /\ IdlePrune /\ IdleVersion /\ IdleManifest

\* fix_alternatives_symlinks: every file of the walk, in the order the
\* directory listing gives.
FixAlternativesSymlinks ==
    /\ altState = "start"
    /\ \E order \in Orderings(WalkFiles(fs)) :
          fs' = FixFiles(fs, [i \in 1..Len(order) |-> AbsText(order[i])])
    /\ altState' = "done"
    /\ UNCHANGED fs0
    /\ UNCHANGED <<buildVars, tarVars, pruneVars, versionVars, manifestVars>>

NextAlt == FixAlternativesSymlinks

SpecAlt == InitAlt /\ [][NextAlt]_vars

\* Resolution inside the staging root, as a user of the unpacked tarball (or
\* a chroot) sees it: an absolute link target starts at the staging root.
RECURSIVE WalkInStage(_, _, _, _)
WalkInStage(f, cur, names, hops) ==
    IF names = <<>> THEN [ok |-> TRUE, path |-> cur]
    ELSE LET c == Head(names)
             rest == Tail(names)
             p == Append(cur, c)
         IN  IF c = "." THEN WalkInStage(f, cur, rest, hops)
             ELSE IF c = ".."
                  THEN WalkInStage(f, IF cur = StageNames THEN cur ELSE Parent(cur), rest, hops)
             ELSE IF IsLinkIn(f, p)
                  THEN IF hops = 0 THEN [ok |-> FALSE, path |-> p]
                       ELSE WalkInStage(f, IF IsAbs(f[p].target) THEN StageNames ELSE cur,
                                        Components(f[p].target) \o rest, hops - 1)
             ELSE IF IsFileIn(f, p) THEN [ok |-> rest = <<>>, path |-> p]
             ELSE IF IsDirIn(f, p) THEN WalkInStage(f, p, rest, hops)
             ELSE [ok |-> FALSE, path |-> p]

\* The links the claim is about: under usr, pointing into /etc/alternatives,
\* with the intermediate link and the final target present in the staging root.
AlternativesLinks ==
    {p \in DOMAIN fs0 :
        /\ IsProperPrefix(StageNames \o <<"usr">>, p)
        /\ fs0[p].kind = "link"
        /\ StartsWith(fs0[p].target, <<"/", "etc", "/", "alternatives">>)
        /\ IsLinkIn(fs0, StageNames \o Components(fs0[p].target))
        /\ WalkInStage(fs0, StageNames, Components(fs0[p].target), MaxLinkHops).ok}

FinalTarget(p) == WalkInStage(fs0, StageNames, Components(fs0[p].target), MaxLinkHops).path

\* C7: after fix_alternatives_symlinks every such link is a relative symlink
\* that names its final target directly, also when the intermediate link is
\* relative or points at another link in /etc/alternatives.
C7_AlternativesLinksRepaired ==
    altState = "done" =>
        \A p \in AlternativesLinks :
            /\ fs[p].kind = "link"
            /\ ~IsAbs(fs[p].target)
            /\ NormNames(Parent(p), Components(fs[p].target)) = FinalTarget(p)

(***************************************************************************)
(* remove_empty_dirs_from_tarball.                                         *)
(*                                                                         *)
(* The tarball is the set of its directories and the set of its files,     *)
(* each a sequence of names starting with the top directory.               *)
(***************************************************************************)
MaxRecreateDirs == 2

\* os.path.basename(stage_dir), the top directory of the tarball.
topdir == <<"stage2">>

TarballDirUniverse ==
    {<<"stage2", "etc">>, <<"stage2", "etc", "fetch-crl.d">>,
     <<"stage2", "var">>, <<"stage2", "var", "empty">>,
     <<"stage2", "var", "lib">>, <<"stage2", "var", "lib", "osg-ca-certs">>}

TarballFileUniverse ==
    {<<"stage2", "etc", "motd">>, <<"stage2", "var", "lib", "data">>}

\* The recreate_dirs a caller may pass.
RecreateDirChoices ==
    {<<"var", "/", "lib", "/", "osg-ca-certs">>,
     <<"etc", "/", "fetch-crl.d">>,
     <<"/", "var", "/", "empty">>}

\* A tarball as tar writes it: every entry's parent directory is an entry.
Tarballs ==
    {t \in [dirs : {D \cup {topdir} : D \in SUBSET TarballDirUniverse},
            files : SUBSET TarballFileUniverse] :
        \A e \in t.dirs \cup t.files : e = topdir \/ Parent(e) \in t.dirs}

\* safe_makedirs (module common): the directory and its missing parents.
safe_makedirs(dirs, path) == dirs \cup {SubSeq(path, 1, i) : i \in 1..Len(path)}

\* The directories "find topdir -type d -empty -delete" deletes when nothing
\* stops it: those with no file below them, the deepest first.
EmptyDirs(dirs, files) == {d \in dirs : ~\E f \in files : IsProperPrefix(d, f)}

\* "for rdir in recreate_dirs: safe_makedirs(os.path.join(topdir, rdir.lstrip('/')))"
RECURSIVE Recreate(_, _)
Recreate(dirs, rdirs) ==
    IF rdirs = <<>> THEN dirs
    ELSE Recreate(safe_makedirs(dirs, Components(PathJoin(topdir, LStrip(Head(rdirs), {"/"})))),
                  Tail(rdirs))

InitPrune ==
    /\ \E t \in Tarballs : tar_dirs = t.dirs /\ tar_files = t.files
    /\ recreate_dirs \in {l \in SeqsUpTo(RecreateDirChoices, MaxRecreateDirs) :
                              \A i, j \in 1..Len(l) : i # j => l[i] # l[j]}
    /\ pruneState = "start"
    /\ findFailed = FALSE
    /\ IdleBuild /\ IdleTar /\ IdleAlt /\ IdleVersion /\ IdleManifest

\* remove_empty_dirs_from_tarball: extract (check_call), find (call, its exit
\* status dropped), re-create, archive (check_call), copy over the tarball.
\* A find that exits non-zero has left some of the empty directories, and
\* with each of them its parents.
RemoveEmptyDirsFromTarball ==
    /\ pruneState = "start"
    /\ \E extract \in ExitCodes, find \in ExitCodes, create \in ExitCodes,
          left \in SUBSET EmptyDirs(tar_dirs, tar_files) :
        /\ find = 0 <=> left = {}
        /\ \A d \in left : d # topdir => Parent(d) \in left
        /\ extract # 0 => find = 0 /\ create = 0
        /\ LET kept == (tar_dirs \ EmptyDirs(tar_dirs, tar_files)) \cup left
               dirs == Recreate(kept, recreate_dirs)
           IN  /\ topdir \notin dirs => extract # 0 \/ create # 0
               /\ IF extract # 0 \/ create # 0
                  THEN /\ pruneState' = "CalledProcessError"
                       /\ UNCHANGED tar_dirs
                  ELSE /\ pruneState' = "done"
                       /\ tar_dirs' = dirs
        /\ findFailed' = (find # 0)
    /\ UNCHANGED <<tar_files, recreate_dirs>>
    /\ UNCHANGED <<buildVars, tarVars, altVars, versionVars, manifestVars>>

NextPrune == RemoveEmptyDirsFromTarball

SpecPrune == InitPrune /\ [][NextPrune]_vars

RecreatePaths == {topdir \o Components(r) : r \in Range(recreate_dirs)}

\* C8: after a successful remove_empty_dirs_from_tarball the tarball holds
\* every directory of the recreate list, no other empty directory, and no
\* directory without a file below it other than a recreated directory or
\* one of its ancestors.
C8_OnlyRecreatedDirsAreEmpty ==
    pruneState = "done" =>
        /\ RecreatePaths \subseteq tar_dirs
        /\ \A d \in tar_dirs :
              (~\E e \in tar_dirs \cup tar_files : IsProperPrefix(d, e)) => d \in RecreatePaths
        /\ \A d \in EmptyDirs(tar_dirs, tar_files) :
              \E r \in RecreatePaths : d = r \/ IsProperPrefix(d, r)

(***************************************************************************)
(* fix_osg_version.                                                        *)
(***************************************************************************)
MaxVersionLen == 3
MaxRelnum == 2
MaxVersionRuns == 2

\* The characters etc/osg-version is made of in the model; "rc" is a word
\* and "tarball" the marker word.
VersionSymbols == {"3", ".", "-", "rc", "\n", "tarball"}

\* The example of the specification: "3.4.5\n".
ExampleVersion == <<"3", ".", "4", ".", "5", "\n">>

Digits == <<"0", "1", "2", "3", "4", "5", "6", "7", "8", "9">>

\* str(n) for a natural number.
RECURSIVE Str(_)
Str(n) == IF n < 10 THEN <<Digits[n + 1]>> ELSE Str(n \div 10) \o <<Digits[(n % 10) + 1]>>

\* The character class [0-9.]
IsVersionChar(c) == c \in Range(Digits) \cup {"."}

\* file.readline(): the text up to and with the first newline.
readline(text) == IF text = <<>> THEN <<>> ELSE Head(FileLines(text))

\* A mutant of the marker test: the marker is never seen.
NeverHasTarball(text) == FALSE

\* 'tarball' in version_str
HasTarball(text) == "tarball" \in Range(text)

\* re.sub(r'^([0-9.]+)(?!-tarball)', r'\1' + suffix, text): the group is the
\* longest run of [0-9.] at the start that "-tarball" does not follow, the
\* matcher backing off one character at a time; no such run, no change.
SubVersion(text, suffix) ==
    LET runs == {k \in 1..Len(text) : \A i \in 1..k : IsVersionChar(text[i])}
        ok == {k \in runs : ~StartsWith(SubSeq(text, k + 1, Len(text)), <<"-", "tarball">>)}
    IN  IF ok = {} THEN text
        ELSE LET k == CHOOSE m \in ok : \A j \in ok : j <= m
             IN  SubSeq(text, 1, k) \o suffix \o SubSeq(text, k + 1, Len(text))

\* fix_osg_version: what is raised, and the text written to etc/osg-version.
fix_osg_version(text, rel) ==
    LET _relnum == IF rel # 0 THEN <<"-">> \o Str(rel) ELSE <<>>
        version_str == readline(text)
    IN  IF version_str = <<>> \/ ~IsVersionChar(Head(version_str))
        THEN [raised |-> "Error", text |-> text]
        ELSE [raised |-> "none",
              text |-> IF HasTarball(version_str) THEN version_str
                       ELSE SubVersion(version_str, <<"-", "tarball">> \o _relnum)]

InitVersion ==
    /\ osg_version \in SeqsUpTo(VersionSymbols, MaxVersionLen) \cup {ExampleVersion}
    /\ relnum \in 0..MaxRelnum
    /\ versionRuns = 0
    /\ versionOrig = osg_version
    /\ versionAfterFirst = <<>>
    /\ versionState = "ready"
    /\ IdleBuild /\ IdleTar /\ IdleAlt /\ IdlePrune /\ IdleManifest

\* One run of fix_osg_version on the staging directory.
FixOsgVersion ==
    /\ versionState = "ready"
    /\ versionRuns < MaxVersionRuns
    /\ LET r == fix_osg_version(osg_version, relnum)
       IN  IF r.raised = "Error"
           THEN /\ versionState' = "Error"
                /\ UNCHANGED <<osg_version, versionRuns, versionAfterFirst>>
           ELSE /\ osg_version' = r.text
                /\ versionRuns' = versionRuns + 1
                /\ versionAfterFirst' = IF versionRuns = 0 THEN r.text ELSE versionAfterFirst
                /\ UNCHANGED versionState
    /\ UNCHANGED <<relnum, versionOrig>>
    /\ UNCHANGED <<buildVars, tarVars, altVars, pruneVars, manifestVars>>

NextVersion == FixOsgVersion

SpecVersion == InitVersion /\ [][NextVersion]_vars

\* C9: fix_osg_version is idempotent: for a version file that starts with a
\* numeric/dot prefix and does not contain "tarball", and any release number,
\* every run after the first leaves the file as the first run wrote it.
C9_FixOsgVersionIdempotent ==
    /\ versionRuns >= 2
    /\ versionOrig # <<>> /\ IsVersionChar(Head(versionOrig))
    /\ "tarball" \notin Range(versionOrig)
    => osg_version = versionAfterFirst

\* C9 witness: "3.4.5\n" with release 2 is "3.4.5-tarball-2\n" after two runs.
C9_Witness ==
    /\ versionRuns = 2
    /\ versionOrig = ExampleVersion
    /\ relnum = 2
    /\ osg_version = <<"3", ".", "4", ".", "5", "-", "tarball", "-", "2", "\n">>

(***************************************************************************)
(* write_package_list_file.                                                *)
(***************************************************************************)
MaxInstalled == 3
MaxExcluded == 2

\* Package NVRs, listed in the order string comparison gives them.
Packages == <<"a-1-1", "b-2-1", "c-3-1">>

PackageIndex(pkg) == CHOOSE i \in 1..Len(Packages) : Packages[i] = pkg

Whitespace == {"\n", " "}

\* str.strip(): leading and trailing whitespace dropped.
RECURSIVE Strip(_)
Strip(text) ==
    IF text # <<>> /\ text[Len(text)] \in Whitespace
    THEN Strip(SubSeq(text, 1, Len(text) - 1))
    ELSE LStrip(text, Whitespace)

\* str.split(): the words between runs of whitespace.
Split(text) == SelectSeq(text, LAMBDA c : c \notin Whitespace)

\* A mutant of sorted(): the order of the set's iteration, here descending.
UnsortedPackages(set) ==
    LET idx == {PackageIndex(x) : x \in set}
        nth(i) == CHOOSE k \in idx : Cardinality({j \in idx : j > k}) = i - 1
    IN  [i \in 1..Cardinality(set) |-> Packages[nth(i)]]

\* sorted(package_set)
SortedPackages(set) ==
    LET idx == {PackageIndex(x) : x \in set}
        nth(i) == CHOOSE k \in idx : Cardinality({j \in idx : j < k}) = i - 1
    IN  [i \in 1..Cardinality(set) |-> Packages[nth(i)]]

\* "\n".join(words)
RECURSIVE JoinLines(_)
JoinLines(words) ==
    IF words = <<>> THEN <<>>
    ELSE IF Len(words) = 1 THEN <<Head(words)>>
    ELSE <<Head(words), "\n">> \o JoinLines(Tail(words))

\* Lines 44-49: the text written to osg/rpm-versions.txt.
write_package_list_file(output, excluded) ==
    LET package_set == Range(Split(Strip(output)))
        exclude_set == Range(excluded)
    IN  JoinLines(SortedPackages(package_set \ exclude_set)) \o <<"\n">>

\* What "rpm -qa" prints: one installed package per line, in any order.
RpmOutputs ==
    {Concat([i \in 1..Len(l) |-> <<l[i], "\n">>]) : l \in SeqsUpTo(Range(Packages), MaxInstalled)}

InitManifest ==
    /\ rpm_output \in RpmOutputs
    /\ exclude_list \in SeqsUpTo(Range(Packages), MaxExcluded)
    /\ rpm_versions = <<>>
    /\ manifestState = "start"
    /\ IdleBuild /\ IdleTar /\ IdleAlt /\ IdlePrune /\ IdleVersion

\* write_package_list_file: a non-zero exit of rpm -qa raises
\* CalledProcessError before anything is written.
WritePackageListFile ==
    /\ manifestState = "start"
    /\ \E retcode \in ExitCodes :
        IF retcode # 0
        THEN manifestState' = "CalledProcessError" /\ UNCHANGED rpm_versions
        ELSE /\ manifestState' = "done"
             /\ rpm_versions' = write_package_list_file(rpm_output, exclude_list)
    /\ UNCHANGED <<rpm_output, exclude_list>>
    /\ UNCHANGED <<buildVars, tarVars, altVars, pruneVars, versionVars>>

NextManifest == WritePackageListFile

SpecManifest == InitManifest /\ [][NextManifest]_vars

\* The installed set I the query reports and the baseline exclusion set B.
InstalledSet == {pkg \in Range(Packages) : pkg \in Range(rpm_output)}
BaselineSet == Range(exclude_list)

\* C10: osg/rpm-versions.txt holds exactly the elements of I minus B, each
\* once, in sorted order, every one followed by a newline (a lone newline
\* when I minus B is empty).
C10_ManifestIsSortedDifference ==
    manifestState = "done" =>
        LET want == InstalledSet \ BaselineSet
            k == Cardinality(want)
        IN  IF k = 0 THEN rpm_versions = <<"\n">>
            ELSE /\ Len(rpm_versions) = 2 * k
                 /\ \A i \in 1..k : /\ rpm_versions[2 * i - 1] \in want
                                    /\ rpm_versions[2 * i] = "\n"
                 /\ \A i \in 1..(k - 1) :
                       PackageIndex(rpm_versions[2 * i - 1])
                           < PackageIndex(rpm_versions[2 * i + 1])

\* C10 witness: B = {a-1-1, b-2-1}, I = {a-1-1, b-2-1, c-3-1}, file "c-3-1\n".
C10_Witness ==
    /\ manifestState = "done"
    /\ BaselineSet = {"a-1-1", "b-2-1"}
    /\ InstalledSet = {"a-1-1", "b-2-1", "c-3-1"}
    /\ rpm_versions = <<"c-3-1", "\n">>

====
